---- MODULE Spec2Model ----
(***************************************************************************)
(* Model of dashboard/dashboard.py: a Streamlit script that loads a CSV of *)
(* air-quality readings, filters it by station and date range, aggregates  *)
(* it and renders a map and four tabs.  The script is re-executed from top *)
(* to bottom whenever a widget changes; the st.cache_data caches survive   *)
(* from one run to the next.                                               *)
(*                                                                         *)
(* Time: a date is a day number d (days since 1970-01-01), a timestamp is  *)
(* the hour number d * 24 + h.  A mean is kept exact as [sum, n]; n = 0 is *)
(* NaN.  A table is a set of rows, each carrying its DataFrame index idx.  *)
(***************************************************************************)
EXTENDS Integers, Sequences, FiniteSets, TLC

\* ---------------------------------------------------------------------------
\* Bounds of the model
\* ---------------------------------------------------------------------------
NumStations == 2    \* the CSV holds rows of the first NumStations stations
MaxDay == 2         \* dates 1..MaxDay (1970-01-02 is a Friday)
MaxRows == 2        \* rows of the CSV
MaxRuns == 1        \* widget changes (re-runs) of one session

\* ---------------------------------------------------------------------------
\* Program constants
\* ---------------------------------------------------------------------------
\* keys of coords, in the order of the table (which is also sorted order)
Stations ==
    << "Aotizhongxin", "Changping", "Dingling", "Dongsi", "Guanyuan", "Gucheng",
       "Huairou", "Nongzhanguan", "Shunyi", "Tiantan", "Wanliu", "Wanshouxigong" >>

\* coords[x] = (latitude, longitude), in microdegrees
coords ==
    [ x \in { Stations[i] : i \in 1..Len(Stations) } |->
        CASE x = "Aotizhongxin"  -> << 25982071, 117455146 >>
          [] x = "Changping"     -> << 40220774, 116224583 >>
          [] x = "Dingling"      -> << 40296082, 116223510 >>
          [] x = "Dongsi"        -> << 39932057, 116434197 >>
          [] x = "Guanyuan"      -> << 32449857, 105879753 >>
          [] x = "Gucheng"       -> << 26867864, 100277612 >>
          [] x = "Huairou"       -> << 40309240, 116669644 >>
          [] x = "Nongzhanguan"  -> << 39935620, 116467537 >>
          [] x = "Shunyi"        -> << 40154917, 116541926 >>
          [] x = "Tiantan"       -> << 39890788, 116398862 >>
          [] x = "Wanliu"        -> << 39999509, 116256893 >>
          [] x = "Wanshouxigong" -> << 39909282, 116263375 >> ]

\* options of the three tab select boxes, and the columns of Tab 4
Tab2Options ==
    << "Tren Bulanan",
       "Tren Konsentrasi PM2.5 & Hubungan dengan Variabel Meteorologi",
       "Tren Konsentrasi PM10 & Hubungan dengan Variabel Meteorologi",
       "Tren Konsentrasi PM2.5 & PM10 Beserta Hubungan dengan Variabel Meteorologi",
       "Dampak Meteorologi vs Polutan Lainnya",
       "Pairplot Polutan & Meteorologi" >>

CompareOptions ==
    << "PM2.5", "PM10", "Meteorologi", "Polutan Lainnya", "Keduanya (PM & Lainnya)" >>

Variables ==
    << "PM2.5", "PM10", "NO2", "SO2", "CO", "O3", "TEMP", "PRES", "DEWP", "WSPM" >>

met_vars == << "TEMP", "DEWP", "PRES", "WSPM" >>

pollutants_other == << "NO2", "SO2", "CO", "O3" >>

order_days ==
    << "Monday", "Tuesday", "Wednesday", "Thursday", "Friday", "Saturday", "Sunday" >>

\* n of filtered_data[pair_vars].sample(n=1000, random_state=42)
SampleN == 1000

Range(s) == { s[i] : i \in 1..Len(s) }

\* ---------------------------------------------------------------------------
\* The CSV file
\* ---------------------------------------------------------------------------
\* position of a station name in Stations
StationIdx(x) == CHOOSE i \in 1..Len(Stations) : Stations[i] = x

CsvStations == { Stations[i] : i \in 1..NumStations }

\* the datetime strings of the file: a day and an hour of that day
\* the hours of a day the file may hold a line for: midnight and a later hour
CsvHours == {0, 1}

CsvDatetimes == { [day |-> d, hour |-> h] : d \in 1..MaxDay, h \in CsvHours }

CsvKeys == CsvStations \X CsvDatetimes

\* the value the file holds in column v for station x at datetime t
Reading(x, t, v) ==
    StationIdx(x) + 2 * t.day + 3 * t.hour
        + (CHOOSE i \in 1..Len(Variables) : Variables[i] = v)

\* file order: by station, then by time
KeyBefore(k1, k2) ==
    \/ StationIdx(k1[1]) < StationIdx(k2[1])
    \/ /\ k1[1] = k2[1]
       /\ k1[2].day * 24 + k1[2].hour < k2[2].day * 24 + k2[2].hour

\* the file with one line for each key of K; idx is the line's position
CsvOf(K) ==
    { [ idx      |-> Cardinality({ k2 \in K : KeyBefore(k2, k) }),
        station  |-> k[1],
        datetime |-> k[2],
        val      |-> [ v \in Range(Variables) |-> Reading(k[1], k[2], v) ] ]
      : k \in K }

CsvFiles ==
    { CsvOf(K) : K \in { K \in SUBSET CsvKeys : Cardinality(K) \in 1..MaxRows } }

\* ---------------------------------------------------------------------------
\* pandas
\* ---------------------------------------------------------------------------
\* pd.to_datetime of a datetime string
ParseDatetime(t) == t.day * 24 + t.hour

\* pd.to_datetime of a date: midnight of that date
to_datetime(date) == date * 24

\* Timestamp.date(), .dt.hour, .dt.dayofweek (Monday = 0), .dt.day_name()
DateOf(ts) == ts \div 24

HourOf(ts) == ts % 24

\* 1970-01-01 is a Thursday
DayOfWeek(ts) == (DateOf(ts) + 3) % 7

DayName(ts) ==
    CASE DayOfWeek(ts) = 0 -> "Monday"
      [] DayOfWeek(ts) = 1 -> "Tuesday"
      [] DayOfWeek(ts) = 2 -> "Wednesday"
      [] DayOfWeek(ts) = 3 -> "Thursday"
      [] DayOfWeek(ts) = 4 -> "Friday"
      [] DayOfWeek(ts) = 5 -> "Saturday"
      [] DayOfWeek(ts) = 6 -> "Sunday"

RECURSIVE SumCol(_, _)
SumCol(rows, v) ==
    IF rows = {} THEN 0
    ELSE LET r == CHOOSE x \in rows : TRUE
         IN r.val[v] + SumCol(rows \ {r}, v)

\* Series.mean(), exact
Mean(rows, v) == [sum |-> SumCol(rows, v), n |-> Cardinality(rows)]

\* the 'first' aggregate: the value of the group's first row
First(rows) == CHOOSE r \in rows : \A r2 \in rows : r.idx <= r2.idx

\* the keys of a groupby, in sorted order
SortedStations(S) == SelectSeq(Stations, LAMBDA x : x \in S)

\* ---------------------------------------------------------------------------
\* 1. load_data and the pre-aggregations
\* ---------------------------------------------------------------------------
\* load_data with the longitude looked up at the latitude's position
LoadDataLatitudeTwice(file) ==
    { [ idx       |-> l.idx,
        stasiun   |-> l.station,
        tanggal   |-> ParseDatetime(l.datetime),
        val       |-> l.val,
        latitude  |-> coords[l.station][1],
        longitude |-> coords[l.station][1] ] : l \in file }

load_data(file) ==
    { [ idx       |-> l.idx,
        stasiun   |-> l.station,
        tanggal   |-> ParseDatetime(l.datetime),
        val       |-> l.val,
        latitude  |-> coords[l.station][1],
        longitude |-> coords[l.station][2] ] : l \in file }

\* station_data_dict with every key holding the whole table
StationDataUngrouped(df) == [ station \in { r.stasiun : r \in df } |-> df ]

station_data_dict(df) ==
    [ station \in { r.stasiun : r \in df } |-> { r \in df : r.stasiun = station } ]

aggregate_station(filtered_df) ==
    LET keys == SortedStations({ r.stasiun : r \in filtered_df })
    IN [ i \in 1..Len(keys) |->
           LET g == { r \in filtered_df : r.stasiun = keys[i] }
           IN [ stasiun   |-> keys[i],
                PM25      |-> Mean(g, "PM2.5"),
                latitude  |-> First(g).latitude,
                longitude |-> First(g).longitude ] ]

aggregate_daily(filtered_df) ==
    { LET g == { r \in filtered_df : r.stasiun = k[1] /\ r.tanggal = k[2] }
      IN [ stasiun |-> k[1],
           tanggal |-> k[2],
           PM25    |-> Mean(g, "PM2.5"),
           PM10    |-> Mean(g, "PM10") ]
      : k \in { << r.stasiun, r.tanggal >> : r \in filtered_df } }

\* a cache key that leaves the argument out (an unhashed parameter)
CacheKeyWithoutArgument(arg) == 0

\* st.cache_data: the key under which a call's result is stored
CacheKey(arg) == arg

\* a cached call: the stored result on a hit, f's result otherwise
Cached(store, arg, result) ==
    IF CacheKey(arg) \in DOMAIN store THEN store[CacheKey(arg)] ELSE result

Store(store, arg, result) ==
    IF CacheKey(arg) \in DOMAIN store THEN store
    ELSE (CacheKey(arg) :> result) @@ store

\* ---------------------------------------------------------------------------
\* 2. The date filter
\* ---------------------------------------------------------------------------
DateFilter(df, mulai, akhir) ==
    { r \in df : /\ r.tanggal >= to_datetime(mulai)
                 /\ r.tanggal <= to_datetime(akhir) }

\* ---------------------------------------------------------------------------
\* 3. The map
\* ---------------------------------------------------------------------------
\* folium.CircleMarker(...).add_to(m) for one row of station_avg
CircleMarker(row, colour) ==
    [ stasiun  |-> row.stasiun,
      location |-> << row.latitude, row.longitude >>,
      PM25     |-> row.PM25,
      color    |-> colour ]

\* the first loop without its filter: a light blue marker for every row
OtherMarkersAll(avg, sel) ==
    [ i \in 1..Len(avg) |-> CircleMarker(avg[i], "lightblue") ]

\* the markers of the other stations, in the order of station_avg
OtherMarkers(avg, sel) ==
    LET others == SelectSeq(avg, LAMBDA row : row.stasiun # sel)
    IN [ i \in 1..Len(others) |-> CircleMarker(others[i], "lightblue") ]

\* the lookup without its filter: station_avg.iloc[0]
SelectedRowsUnfiltered(avg, sel) == avg

\* station_avg[station_avg['stasiun'] == selected_station]
SelectedRows(avg, sel) == SelectSeq(avg, LAMBDA row : row.stasiun = sel)

\* a displayed element: a figure, a table, the map or the tab bar
El(tab, kind, v) == [tab |-> tab, kind |-> kind, var |-> v]

\* ---------------------------------------------------------------------------
\* 4. The tabs
\* ---------------------------------------------------------------------------
Tab1 ==
    << El(1, "pie", "PM2.5 & PM10"),
       El(1, "pie", "Polutan Lainnya"),
       El(1, "heatmap", "corr"),
       El(1, "dataframe", "stats_pm"),
       El(1, "facetgrid", "Tren Polutan"),
       El(1, "dataframe", "stats_pollutants") >>

\* DataFrame.sample(n) without replacement raises when the frame is shorter
SampleRaises(df) == Cardinality(df) < SampleN

\* the error Tab 2 ends in, "none" when it completes
Tab2Error(opt, fd) ==
    IF opt = "Pairplot Polutan & Meteorologi" /\ SampleRaises(fd)
    THEN "ValueError" ELSE "none"

Tab2(opt, fd) ==
    CASE opt = "Tren Bulanan" ->
           << El(2, "lineplot", "PM2.5"), El(2, "lineplot", "PM10") >>
      [] opt = "Pairplot Polutan & Meteorologi" ->
           IF SampleRaises(fd) THEN << >> ELSE << El(2, "pairplot", "pair_vars") >>
      [] opt = "Tren Konsentrasi PM2.5 & Hubungan dengan Variabel Meteorologi" ->
           << El(2, "lineplot", "PM2.5"), El(2, "scatterplot", "PM2.5") >>
      [] opt = "Tren Konsentrasi PM10 & Hubungan dengan Variabel Meteorologi" ->
           << El(2, "lineplot", "PM10"), El(2, "scatterplot", "PM10") >>
      [] opt = "Tren Konsentrasi PM2.5 & PM10 Beserta Hubungan dengan Variabel Meteorologi" ->
           << El(2, "lineplot", "PM2.5 & PM10"), El(2, "scatterplot", "PM2.5 & PM10") >>
      [] opt = "Dampak Meteorologi vs Polutan Lainnya" ->
           << El(2, "scatterplot", "Polutan Lainnya") >>

\* the column of the daily line plot of Tab 3
LinePlotColumn(cmp) ==
    CASE cmp = "PM2.5" -> "PM2.5"
      [] cmp = "PM10" -> "PM10"
      [] OTHER -> "PM2.5"

\* the line plot drawn for the two PM options only
Tab3LinePlotPMOnly(cmp) ==
    IF cmp \in {"PM2.5", "PM10"}
    THEN << El(3, "lineplot", LinePlotColumn(cmp)) >> ELSE << >>

Tab3LinePlot(cmp) ==
    IF cmp \in {"PM2.5", "PM10", "Keduanya (PM & Lainnya)"}
    THEN << El(3, "lineplot", LinePlotColumn(cmp)) >> ELSE << >>

Tab3BarPM25(cmp) ==
    IF cmp \in {"PM2.5", "Keduanya (PM & Lainnya)"}
    THEN << El(3, "barplot", "PM2.5") >> ELSE << >>

Tab3BarPM10(cmp) ==
    IF cmp \in {"PM10", "Keduanya (PM & Lainnya)"}
    THEN << El(3, "barplot", "PM10") >> ELSE << >>

Tab3BarMet(cmp) ==
    IF cmp \in {"Meteorologi", "Keduanya (PM & Lainnya)"}
    THEN [ i \in 1..Len(met_vars) |-> El(3, "barplot", met_vars[i]) ] ELSE << >>

Tab3BarOther(cmp) ==
    IF cmp \in {"Polutan Lainnya", "Keduanya (PM & Lainnya)"}
    THEN [ i \in 1..Len(pollutants_other) |-> El(3, "barplot", pollutants_other[i]) ]
    ELSE << >>

Tab3(cmp) ==
    Tab3LinePlot(cmp) \o Tab3BarPM25(cmp) \o Tab3BarPM10(cmp)
        \o Tab3BarMet(cmp) \o Tab3BarOther(cmp)

\* the weekend test off by one: x > 5
JenisHariAfterSaturday(x) == IF x > 5 THEN "Akhir Pekan" ELSE "Hari Kerja"

\* lambda x: 'Akhir Pekan' if x >= 5 else 'Hari Kerja'
JenisHari(x) == IF x >= 5 THEN "Akhir Pekan" ELSE "Hari Kerja"

\* filtered_data with the four columns Tab 4 adds to it
TimeColumns(fd) ==
    { [ idx         |-> r.idx,
        stasiun     |-> r.stasiun,
        tanggal     |-> r.tanggal,
        val         |-> r.val,
        latitude    |-> r.latitude,
        longitude   |-> r.longitude,
        hour        |-> HourOf(r.tanggal),
        day_of_week |-> DayName(r.tanggal),
        hari        |-> DayOfWeek(r.tanggal),
        jenis_hari  |-> JenisHari(DayOfWeek(r.tanggal)) ] : r \in fd }

\* Series.reindex(index): one entry per label of index, NaN where grouped has none
Reindex(grouped, index) ==
    [ i \in 1..Len(index) |->
        [ day_of_week |-> index[i],
          mean        |-> IF index[i] \in DOMAIN grouped THEN grouped[index[i]]
                          ELSE [sum |-> 0, n |-> 0] ] ]

\* groupby('day_of_week')[variable_choice].mean().reindex(order_days)
WeekdayAvg(fd4, v) ==
    Reindex([ d \in { r.day_of_week : r \in fd4 } |->
                Mean({ r \in fd4 : r.day_of_week = d }, v) ],
            order_days)

Tab4(v) ==
    << El(4, "lineplot", v), El(4, "barplot day_of_week", v),
       El(4, "barplot jenis_hari", v) >>

\* ---------------------------------------------------------------------------
\* One run of the script, top to bottom
\* ---------------------------------------------------------------------------
\* the three st.cache_data stores before anything was called
EmptyCache == [load_data |-> << >>, aggregate_station |-> << >>, aggregate_daily |-> << >>]

\* file: the CSV; sel, mulai, akhir, opt, cmp, v: the values of the six widgets;
\* cch: the caches as the previous run left them
Script(file, sel, mulai, akhir, opt, cmp, v, cch) ==
    LET df      == IF cch.load_data = << >> THEN load_data(file) ELSE cch.load_data[1]
        ssd     == station_data_dict(df)[sel]
        fd      == DateFilter(ssd, mulai, akhir)
        dfl     == DateFilter(df, mulai, akhir)
        avg     == Cached(cch.aggregate_station, dfl, aggregate_station(dfl))
        daily   == Cached(cch.aggregate_daily, dfl, aggregate_daily(dfl))
        others  == OtherMarkers(avg, sel)
        selrows == SelectedRows(avg, sel)
        err     == IF selrows = << >> THEN "IndexError" ELSE Tab2Error(opt, fd)
        cch2    == [ load_data         |-> << df >>,
                     aggregate_station |-> Store(cch.aggregate_station, dfl, avg),
                     aggregate_daily   |-> Store(cch.aggregate_daily, dfl, daily) ]
        fd4     == TimeColumns(fd)
    IN [ data          |-> df,
         filtered_data |-> IF err = "none" THEN fd4 ELSE fd,
         date_filtered |-> dfl,
         station_avg   |-> avg,
         daily_avg_all |-> daily,
         m             |-> IF selrows = << >> THEN others
                           ELSE Append(others, CircleMarker(selrows[1], "orange")),
         rendered      |-> CASE err = "IndexError" -> << >>
                             [] err = "ValueError" ->
                                  << El(0, "st_folium", "m"), El(0, "tabs", "tabs") >>
                                      \o Tab1 \o Tab2(opt, fd)
                             [] OTHER ->
                                  << El(0, "st_folium", "m"), El(0, "tabs", "tabs") >>
                                      \o Tab1 \o Tab2(opt, fd) \o Tab3(cmp) \o Tab4(v),
         daily_avg     |-> IF err = "none" THEN WeekdayAvg(fd4, v) ELSE << >>,
         error         |-> err,
         cache         |-> cch2 ]

\* ---------------------------------------------------------------------------
\* State
\* ---------------------------------------------------------------------------
VARIABLES
    csv,               \* the contents of PSRA_Data_SemuaStasiun.csv
    selected_station, tanggal_mulai, tanggal_akhir,   \* sidebar widgets
    option, compare_option, variable_choice,          \* select boxes of Tabs 2, 3, 4
    cache,             \* the st.cache_data stores
    data, filtered_data, date_filtered, station_avg, daily_avg_all,
    m,                 \* the markers added to the folium map, in order
    rendered,          \* the elements the run displayed, in order
    daily_avg,         \* Tab 4's per-weekday averages
    error,             \* "none", or the exception that ended the run
    runs               \* re-runs so far

vars ==
    << csv, selected_station, tanggal_mulai, tanggal_akhir, option, compare_option,
       variable_choice, cache, data, filtered_data, date_filtered, station_avg,
       daily_avg_all, m, rendered, daily_avg, error, runs >>

\* the run's results become the state
Execute(file, sel, mulai, akhir, opt, cmp, v, cch) ==
    \E r \in { Script(file, sel, mulai, akhir, opt, cmp, v, cch) } :
       /\ csv' = file
       /\ selected_station' = sel
       /\ tanggal_mulai' = mulai
       /\ tanggal_akhir' = akhir
       /\ option' = opt
       /\ compare_option' = cmp
       /\ variable_choice' = v
       /\ cache' = r.cache
       /\ data' = r.data
       /\ filtered_data' = r.filtered_data
       /\ date_filtered' = r.date_filtered
       /\ station_avg' = r.station_avg
       /\ daily_avg_all' = r.daily_avg_all
       /\ m' = r.m
       /\ rendered' = r.rendered
       /\ daily_avg' = r.daily_avg
       /\ error' = r.error

\* the widgets' values on the first run: the first station of the file, the
\* dates of the earliest and the latest timestamp, each select box's first option
DefaultStation(file) == First(load_data(file)).stasiun

DefaultMulai(file) ==
    DateOf(CHOOSE t \in { r.tanggal : r \in load_data(file) } :
             \A r \in load_data(file) : t <= r.tanggal)

DefaultAkhir(file) ==
    DateOf(CHOOSE t \in { r.tanggal : r \in load_data(file) } :
             \A r \in load_data(file) : t >= r.tanggal)

FirstRun(file, sel, mulai, akhir, opt, cmp, v) ==
    Script(file, sel, mulai, akhir, opt, cmp, v, EmptyCache)

Init ==
    \E file \in CsvFiles :
        \E r \in { FirstRun(file, DefaultStation(file), DefaultMulai(file),
                            DefaultAkhir(file), Tab2Options[1], CompareOptions[1],
                            Variables[1]) } :
           /\ csv = file
           /\ selected_station = DefaultStation(file)
           /\ tanggal_mulai = DefaultMulai(file)
           /\ tanggal_akhir = DefaultAkhir(file)
           /\ option = Tab2Options[1]
           /\ compare_option = CompareOptions[1]
           /\ variable_choice = Variables[1]
           /\ cache = r.cache
           /\ data = r.data
           /\ filtered_data = r.filtered_data
           /\ date_filtered = r.date_filtered
           /\ station_avg = r.station_avg
           /\ daily_avg_all = r.daily_avg_all
           /\ m = r.m
           /\ rendered = r.rendered
           /\ daily_avg = r.daily_avg
           /\ error = r.error
           /\ runs = 0

\* ---------------------------------------------------------------------------
\* Widget changes: each one re-runs the script
\* ---------------------------------------------------------------------------
Rerun(sel, mulai, akhir, opt, cmp, v) ==
    /\ runs < MaxRuns
    /\ runs' = runs + 1
    /\ Execute(csv, sel, mulai, akhir, opt, cmp, v, cache)

SelectStation ==
    \E s \in { r.stasiun : r \in data } \ {selected_station} :
        Rerun(s, tanggal_mulai, tanggal_akhir, option, compare_option, variable_choice)

InputTanggalMulai ==
    \E d \in (1..MaxDay) \ {tanggal_mulai} :
        Rerun(selected_station, d, tanggal_akhir, option, compare_option, variable_choice)

InputTanggalAkhir ==
    \E d \in (1..MaxDay) \ {tanggal_akhir} :
        Rerun(selected_station, tanggal_mulai, d, option, compare_option, variable_choice)

\* a select box of a tab can be changed only if the last run got to display it
SelectOption ==
    \E o \in Range(Tab2Options) \ {option} :
        /\ error # "IndexError"
        /\ Rerun(selected_station, tanggal_mulai, tanggal_akhir, o, compare_option,
                 variable_choice)

SelectCompareOption ==
    \E o \in Range(CompareOptions) \ {compare_option} :
        /\ error = "none"
        /\ Rerun(selected_station, tanggal_mulai, tanggal_akhir, option, o, variable_choice)

SelectVariableChoice ==
    \E o \in Range(Variables) \ {variable_choice} :
        /\ error = "none"
        /\ Rerun(selected_station, tanggal_mulai, tanggal_akhir, option, compare_option, o)

Next ==
    \/ SelectStation
    \/ InputTanggalMulai
    \/ InputTanggalAkhir
    \/ SelectOption
    \/ SelectCompareOption
    \/ SelectVariableChoice

Spec == Init /\ [][Next]_vars

\* ---------------------------------------------------------------------------
\* Properties
\* ---------------------------------------------------------------------------
Idx(df) == { r.idx : r \in df }

\* the rows of df whose calendar date lies in [mulai, akhir]
InCalendarRange(df, mulai, akhir) ==
    { r \in df : mulai <= DateOf(r.tanggal) /\ DateOf(r.tanggal) <= akhir }

\* the elements the run displayed in one tab, in order
TabElements(t) == SelectSeq(rendered, LAMBDA e : e.tab = t)

\* C1: the date range filter is inclusive at both ends in calendar dates: a
\* row is kept in date_filtered, and for the selected station in
\* filtered_data, iff the date of its timestamp lies between the start date
\* and the end date, whatever its hour.
C1_CalendarDateInclusive ==
    /\ date_filtered = InCalendarRange(data, tanggal_mulai, tanggal_akhir)
    /\ Idx(filtered_data) =
         Idx(InCalendarRange({ r \in data : r.stasiun = selected_station },
                             tanggal_mulai, tanggal_akhir))

\* C2: filtered_data is exactly the rows of the dataset that are of the
\* selected station and pass the date filter; it is date_filtered restricted
\* to the selected station, and date_filtered is the union over the stations
\* of the rows that pass the same filter.
C2_TwoPredicates ==
    /\ Idx(filtered_data) =
         { r.idx : r \in { x \in data :
               /\ x.stasiun = selected_station
               /\ x.tanggal >= to_datetime(tanggal_mulai)
               /\ x.tanggal <= to_datetime(tanggal_akhir) } }
    /\ Idx(filtered_data) = Idx({ r \in date_filtered : r.stasiun = selected_station })
    /\ date_filtered =
         UNION { { r \in data : /\ r.stasiun = x
                                /\ r.tanggal >= to_datetime(tanggal_mulai)
                                /\ r.tanggal <= to_datetime(tanggal_akhir) }
                 : x \in { r.stasiun : r \in data } }

\* after a widget change, a row kept for the selected station and a row of
\* another station kept by the dates but not by the station
C2_Witness ==
    /\ runs >= 1
    /\ filtered_data # {}
    /\ Idx(filtered_data) # Idx(date_filtered)

\* C3: a run whose CSV loaded and whose selection holds at least one row
\* ends without an error and displays the map and all four tabs.
C3_NoOtherError ==
    filtered_data # {} =>
        /\ error = "none"
        /\ \A t \in 1..4 : TabElements(t) # << >>
        /\ TabElements(0) = << El(0, "st_folium", "m"), El(0, "tabs", "tabs") >>

C5_StaticCoordinates ==
    /\ \A r \in data : << r.latitude, r.longitude >> = coords[r.stasiun]
    /\ \A r1, r2 \in data :
          r1.stasiun = r2.stasiun =>
              r1.latitude = r2.latitude /\ r1.longitude = r2.longitude
    /\ \A x \in { r.stasiun : r \in date_filtered } :
          Cardinality({ i \in 1..Len(station_avg) : station_avg[i].stasiun = x }) = 1
    /\ \A i \in 1..Len(station_avg) :
          /\ station_avg[i].stasiun \in { r.stasiun : r \in date_filtered }
          /\ << station_avg[i].latitude, station_avg[i].longitude >>
                = coords[station_avg[i].stasiun]

\* two stations aggregated, after a widget change
C5_Witness == Len(station_avg) >= 2 /\ runs >= 1

\* C6: each station with rows in date_filtered gets exactly one marker; the
\* selected station's marker is orange, the others' light blue, and the
\* selected station's marker is the last one added.
C6_Markers ==
    /\ \A x \in { r.stasiun : r \in date_filtered } :
          Cardinality({ i \in 1..Len(m) : m[i].stasiun = x }) = 1
    /\ \A i \in 1..Len(m) :
          /\ m[i].stasiun \in { r.stasiun : r \in date_filtered }
          /\ m[i].color = IF m[i].stasiun = selected_station THEN "orange"
                          ELSE "lightblue"
          /\ m[i].stasiun = selected_station => i = Len(m)

\* the selected station sorts first and its marker was added after another's
C6_Witness ==
    /\ Len(m) >= 2
    /\ m[Len(m)].stasiun = selected_station
    /\ selected_station = Stations[1]
    /\ m[Len(m)].color = "orange"

\* the rows of df of station x on calendar day d
DayRows(df, x, d) == { r \in df : r.stasiun = x /\ DateOf(r.tanggal) = d }

\* C7: aggregate_daily's result holds, for each station and each calendar day
\* on which the station has rows in its input, exactly one row, with the
\* means of PM2.5 and PM10 over that station's rows of that day.
C7_DailyAverages ==
    \A x \in { r.stasiun : r \in date_filtered } :
        \A d \in { DateOf(r.tanggal) : r \in { y \in date_filtered : y.stasiun = x } } :
            /\ Cardinality({ a \in daily_avg_all :
                               a.stasiun = x /\ DateOf(a.tanggal) = d }) = 1
            /\ \A a \in daily_avg_all :
                  (a.stasiun = x /\ DateOf(a.tanggal) = d) =>
                      /\ a.PM25 = Mean(DayRows(date_filtered, x, d), "PM2.5")
                      /\ a.PM10 = Mean(DayRows(date_filtered, x, d), "PM10")

\* C8: when the dates leave no row of the selected station the run ends in
\* the IndexError of the selected_row lookup: the markers added so far are
\* those of other stations, the map is not displayed, no tab is rendered.
C8_EmptySelectionEndsAtLookup ==
    filtered_data = {} =>
        /\ error = "IndexError"
        /\ rendered = << >>
        /\ \A i \in 1..Len(m) :
              m[i].stasiun # selected_station /\ m[i].color = "lightblue"
        /\ Len(m) = Cardinality({ r.stasiun : r \in date_filtered })

\* the selection is empty while another station's marker was added
C8_Witness == filtered_data = {} /\ Len(m) >= 1 /\ error = "IndexError"

\* the bar charts of Tab 3 for the columns of cols, in order
BarCharts(cols) == [ i \in 1..Len(cols) |-> El(3, "barplot", cols[i]) ]

\* C9: in Tab 3 the line plot is drawn exactly for 'PM2.5', 'PM10' and
\* 'Keduanya' (of PM2.5 for the latter), the PM2.5 bar chart exactly for
\* 'PM2.5' and 'Keduanya', the PM10 bar chart for 'PM10' and 'Keduanya', the
\* four meteorology bar charts for 'Meteorologi' and 'Keduanya', the four
\* other-pollutant bar charts for 'Polutan Lainnya' and 'Keduanya'; every
\* option draws at least one chart and 'Keduanya' all eleven.
C9_ComparisonSections ==
    error = "none" =>
        LET both == compare_option = "Keduanya (PM & Lainnya)"
            has(e) == \E i \in 1..Len(TabElements(3)) : TabElements(3)[i] = e
        IN /\ has(El(3, "lineplot", "PM2.5")) <=> (compare_option = "PM2.5" \/ both)
           /\ has(El(3, "lineplot", "PM10")) <=> compare_option = "PM10"
           /\ has(El(3, "barplot", "PM2.5")) <=> (compare_option = "PM2.5" \/ both)
           /\ has(El(3, "barplot", "PM10")) <=> (compare_option = "PM10" \/ both)
           /\ \A v \in {"TEMP", "DEWP", "PRES", "WSPM"} :
                 has(El(3, "barplot", v)) <=> (compare_option = "Meteorologi" \/ both)
           /\ \A v \in {"NO2", "SO2", "CO", "O3"} :
                 has(El(3, "barplot", v)) <=> (compare_option = "Polutan Lainnya" \/ both)
           /\ Len(TabElements(3)) >= 1
           /\ both => Len(TabElements(3)) = 11
           /\ \A i \in 1..Len(TabElements(3)) :
                 TabElements(3)[i].kind \in {"lineplot", "barplot"}

\* a completed run with 'Keduanya' chosen
C9_Witness ==
    /\ error = "none"
    /\ compare_option = "Keduanya (PM & Lainnya)"
    /\ Len(TabElements(3)) = 11

C11_DefaultDatesDropNoRow ==
    (tanggal_mulai = DefaultMulai(csv) /\ tanggal_akhir = DefaultAkhir(csv)) =>
        /\ date_filtered = data
        /\ Idx(filtered_data) = Idx({ r \in data : r.stasiun = selected_station })

====
